---- MODULE Spec2Model ----
(***************************************************************************)
(* Model of drewstone/trading-bot: the DropRiseStrategy (strategy.ts), the *)
(* BacktestingEngine and the live TradingBot.                              *)
(*                                                                         *)
(* JavaScript numbers are modelled as exact rationals <<n, d>> with d > 0  *)
(* in lowest terms; IEEE rounding is not modelled.  NaN (the result of     *)
(* 0/0) is the value NaN below.                                            *)
(***************************************************************************)
EXTENDS Integers, Sequences, FiniteSets, TLC

(***************************************************************************)
(* Exact rational arithmetic                                               *)
(***************************************************************************)
Abs(n) == IF n < 0 THEN -n ELSE n

RECURSIVE GCD(_, _)
GCD(a, b) == IF b = 0 THEN a ELSE GCD(b, a % b)

Norm(n, d) ==
  LET s == IF d < 0 THEN -1 ELSE 1
      g == GCD(Abs(n), Abs(d))
  IN  <<(s * n) \div g, (s * d) \div g>>

R(n) == <<n, 1>>
Frac(n, d) == Norm(n, d)
RNeg(a) == <<-a[1], a[2]>>
RAdd(a, b) ==
  LET g == GCD(a[2], b[2])
  IN  Norm(a[1] * (b[2] \div g) + b[1] * (a[2] \div g), (a[2] \div g) * b[2])
RSub(a, b) == RAdd(a, RNeg(b))
RMul(a, b) ==
  LET g1 == GCD(Abs(a[1]), b[2])
      g2 == GCD(Abs(b[1]), a[2])
  IN  Norm((a[1] \div g1) * (b[1] \div g2), (a[2] \div g2) * (b[2] \div g1))
RDiv(a, b) == RMul(a, IF b[1] < 0 THEN <<-b[2], -b[1]>> ELSE <<b[2], b[1]>>)
RLe(a, b) ==
  LET g == GCD(a[2], b[2])
  IN  a[1] * (b[2] \div g) <= b[1] * (a[2] \div g)
RLt(a, b) == ~RLe(b, a)
RMin(a, b) == IF RLt(b, a) THEN b ELSE a
Zero == R(0)
NaN == <<0, 0>>

(***************************************************************************)
(* Bounds of the model                                                     *)
(***************************************************************************)
Symbols == {"ETHUSDT", "SOLUSDT"}
Prices == {95, 100, 110}
RunPrices == {50, 200}
MaxUpdates == 3
MaxRuns == 2
MaxOverrides == 1
MaxTimerPolls == 2
MaxPending == 2
LivePrices == {80, 100}
ExecPrices == {100}
MaxCalls == 4

(***************************************************************************)
(* Program constants                                                       *)
(***************************************************************************)
HistoryCap == 100
SliceCount == 5
TwapIntervalMs == 60000

VARIABLES
  \* DropRiseStrategy (strategy.ts)
  config,           \* this.config
  initialPrices,    \* this.initialPrices : symbol -> reference price
  priceHistory,     \* this.priceHistory  : symbol -> sequence of prices
  lastUpdate,       \* argument of the latest onUpdate call
  lastSignal,       \* value returned by the latest onUpdate call
  nCalls,           \* number of onUpdate calls made so far
  \* object heap shared by the caller and the BacktestingEngine
  portfolios,       \* Portfolio objects : ref -> [cash, assets (a ref)]
  assetObjs,        \* the objects held in Portfolio.assets : ref -> (symbol -> Asset)
  callerAtConstruction, \* value of the caller's portfolio when the engine was built
  \* BacktestingEngine
  thisPortfolio,    \* this.portfolio (a ref into portfolios)
  riskLimits,       \* this.riskLimits
  trades,           \* this.trades
  pc,               \* position inside run()
  loop,             \* locals of executeBuy / executeSell
  results,          \* BacktestResults returned so far
  startValue,       \* portfolio value when the current run() was entered
  nRuns, nUpdates, nOverrides, clock,
  \* TradingBot
  botPc,            \* "constructed" or "initialized"
  botPortfolio,     \* this.portfolio
  botRiskLimits,    \* this.riskLimits
  isRunning,        \* this.isRunning
  priceIntervals,   \* keys of this.priceIntervals
  timers,           \* symbols whose setInterval timer is active
  startPc,          \* position inside start()
  startIdx,         \* index of the symbol start() is tracking
  startAwait,       \* the first poll start() is awaiting
  stopPc,           \* position inside stop()
  handlers,         \* pending invocations of checkInterval : id -> locals and position
  nTimerPolls,      \* number of polls started by timers
  failedFirst,      \* symbols whose first poll ended in an exception
  timerPolled,      \* symbols whose timer has started a poll
  orderFailed       \* symbols for which a placeOrder call has failed

stratVars == <<config, initialPrices, priceHistory, lastUpdate, lastSignal, nCalls>>
heapVars == <<portfolios, assetObjs, callerAtConstruction>>
engineVars == <<thisPortfolio, riskLimits, trades, pc, loop, results, startValue,
                nRuns, nUpdates, nOverrides, clock>>
liveVars == <<botPc, botPortfolio, botRiskLimits, isRunning, priceIntervals, timers,
              startPc, startIdx, startAwait, stopPc, handlers, nTimerPolls,
              failedFirst, timerPolled, orderFailed>>

(***************************************************************************)
(* DropRiseStrategy                                                        *)
(***************************************************************************)
EmptyMap == [s \in {} |-> Zero]
Null == [action |-> "NONE"]

DefaultConfig ==
  [dropThreshold |-> Frac(5, 100), riseThreshold |-> Frac(10, 100),
   buyPercentage |-> Frac(10, 100), sellPercentage |-> Frac(20, 100),
   twapSlices |-> 5, twapInterval |-> 60000]

\* the literal passed to strategy.initialize by BacktestingEngine.run and
\* TradingBot.initialize
EngineConfig ==
  [dropThreshold |-> Frac(5, 100), riseThreshold |-> Frac(10, 100),
   buyPercentage |-> Frac(10, 100), sellPercentage |-> Frac(20, 100),
   twapSlices |-> 5, twapInterval |-> 60000]

\* { ...this.config, ...config }
MergeConfig(cur, cfg) ==
  [f \in DOMAIN cur |-> IF f \in DOMAIN cfg THEN cfg[f] ELSE cur[f]]

IsFirstObservation(ip, update) == update.symbol \notin DOMAIN ip

PriceChange(price, initialPrice) == RDiv(RSub(price, initialPrice), initialPrice)

DropConditionStrict(priceChange, cfg) == RLt(priceChange, RNeg(cfg.dropThreshold))

DropCondition(priceChange, cfg) == RLe(priceChange, RNeg(cfg.dropThreshold))

RiseCondition(priceChange, cfg) == RLe(cfg.riseThreshold, priceChange)

\* onUpdate without the early return of the first observation
OnUpdateSignalFallThrough(cfg, ip, update) ==
  LET ref == IF IsFirstObservation(ip, update) THEN update.price ELSE ip[update.symbol]
      priceChange == PriceChange(update.price, ref)
  IN  IF DropCondition(priceChange, cfg)
      THEN [symbol |-> update.symbol, action |-> "BUY",
            percentage |-> cfg.buyPercentage]
      ELSE IF RiseCondition(priceChange, cfg)
      THEN [symbol |-> update.symbol, action |-> "SELL",
            percentage |-> cfg.sellPercentage]
      ELSE Null

\* the value onUpdate resolves to
OnUpdateSignal(cfg, ip, update) ==
  IF IsFirstObservation(ip, update) THEN Null
  ELSE LET priceChange == PriceChange(update.price, ip[update.symbol])
       IN  IF DropCondition(priceChange, cfg)
           THEN [symbol |-> update.symbol, action |-> "BUY",
                 percentage |-> cfg.buyPercentage]
           ELSE IF RiseCondition(priceChange, cfg)
           THEN [symbol |-> update.symbol, action |-> "SELL",
                 percentage |-> cfg.sellPercentage]
           ELSE Null

\* initialPrices.set executed on every observation
OnUpdateInitialPricesTrailing(ip, update) ==
  (update.symbol :> update.price) @@ ip

\* this.initialPrices after onUpdate
OnUpdateInitialPrices(ip, update) ==
  IF IsFirstObservation(ip, update)
  THEN (update.symbol :> update.price) @@ ip
  ELSE ip

\* this.priceHistory after onUpdate
OnUpdateHistory(ph, ip, update) ==
  IF IsFirstObservation(ip, update)
  THEN (update.symbol :> <<update.price>>) @@ ph
  ELSE LET pushed == Append(ph[update.symbol], update.price)
       IN  [ph EXCEPT ![update.symbol] =
              IF Len(pushed) > HistoryCap THEN Tail(pushed) ELSE pushed]

\* the effect of one strategy.onUpdate(update) call on the strategy object
OnUpdate(update) ==
  /\ lastSignal' = OnUpdateSignal(config, initialPrices, update)
  /\ initialPrices' = OnUpdateInitialPrices(initialPrices, update)
  /\ priceHistory' = OnUpdateHistory(priceHistory, initialPrices, update)
  /\ lastUpdate' = update
  /\ nCalls' = nCalls + 1
  /\ UNCHANGED config

\* strategy.initialize(cfg)
Initialize(cfg) ==
  /\ config' = MergeConfig(config, cfg)
  /\ UNCHANGED <<initialPrices, priceHistory, lastUpdate, lastSignal, nCalls>>

\* strategy.onEnd()
OnEnd ==
  /\ priceHistory' = EmptyMap
  /\ initialPrices' = EmptyMap
  /\ UNCHANGED <<config, lastUpdate, lastSignal, nCalls>>

StratInit ==
  /\ config = DefaultConfig
  /\ initialPrices = EmptyMap
  /\ priceHistory = EmptyMap
  /\ lastUpdate = [symbol |-> "none"]
  /\ lastSignal = Null
  /\ nCalls = 0

(***************************************************************************)
(* BacktestingEngine                                                       *)
(***************************************************************************)
\* the portfolios a caller may hand to the constructor
InitialPortfolios ==
  { [cash |-> R(1000),
     assets |-> ("ETHUSDT" :> [symbol |-> "ETHUSDT", price |-> R(100), holdings |-> R(10)])],
    [cash |-> R(100),
     assets |-> ("ETHUSDT" :> [symbol |-> "ETHUSDT", price |-> R(100), holdings |-> R(10)])
            @@ ("SOLUSDT" :> [symbol |-> "SOLUSDT", price |-> R(100), holdings |-> Zero])] }

RiskLimitChoices ==
  { [maxPositionSize |-> R(100), maxDailyLoss |-> Frac(5, 100), maxTradeSize |-> R(50000)],
    [maxPositionSize |-> R(100), maxDailyLoss |-> Frac(5, 100), maxTradeSize |-> R(40)],
    [maxPositionSize |-> Frac(2, 5), maxDailyLoss |-> Frac(5, 100), maxTradeSize |-> R(50000)] }

\* signals a strategy other than DropRiseStrategy may return for an update:
\* a BUY of the whole portfolio value, a SELL of twice the holdings
OverrideSignals == { [action |-> "BUY", percentage |-> R(1)],
                     [action |-> "SELL", percentage |-> R(2)] }

\* the engines constructed: the two-asset portfolio under each choice of
\* limits, the one-asset portfolio under the limits of index.ts
EngineSetups ==
  { su \in InitialPortfolios \X RiskLimitChoices :
      \/ DOMAIN su[1].assets = Symbols
      \/ su[2].maxTradeSize = R(50000) /\ su[2].maxPositionSize = R(100) }

Updates == [symbol : Symbols, price : {R(p) : p \in Prices}]

\* the price updates of the data handed to run()
RunUpdates == [symbol : Symbols, price : {R(p) : p \in RunPrices}]

\* the value of the Portfolio object ref, with its assets dereferenced
Deref(ps, ao, ref) == [cash |-> ps[ref].cash, assets |-> ao[ps[ref].assets]]

\* { ...initialPortfolio }: a new Portfolio object sharing the assets object
ShallowCopy(ps, ao, src) ==
  [ref |-> "engine",
   portfolios |-> ("engine" :> [cash |-> ps[src].cash, assets |-> ps[src].assets]) @@ ps,
   assetObjs |-> ao]

\* JSON.parse(JSON.stringify(initialPortfolio)): a new Portfolio object with
\* a new assets object; finite numbers survive the round trip unchanged
JSONCopy(ps, ao, src) ==
  [ref |-> "engine",
   portfolios |-> ("engine" :> [cash |-> ps[src].cash, assets |-> "engineAssets"]) @@ ps,
   assetObjs |-> ("engineAssets" :> ao[ps[src].assets]) @@ ao]

RECURSIVE SumHoldings(_, _)
SumHoldings(assets, S) ==
  IF S = {} THEN Zero
  ELSE LET s == CHOOSE x \in S : TRUE
       IN  RAdd(RMul(assets[s].holdings, assets[s].price), SumHoldings(assets, S \ {s}))

\* calculateTotalValue(update): the update is not used
CalculateTotalValue(p) == RAdd(p.cash, SumHoldings(p.assets, DOMAIN p.assets))

\* calculateInitialValue(): reads this.portfolio as it is when called
CalculateInitialValue(p) == RAdd(p.cash, SumHoldings(p.assets, DOMAIN p.assets))

\* a / b in JavaScript; 0/0 is NaN (x/0 with x # 0 is not reached)
JSDiv(a, b) == IF b[1] = 0 THEN NaN ELSE RDiv(a, b)

\* ((totalValue - initialValue) / initialValue) * 100
TotalReturn(totalValue, initialValue) ==
  LET q == JSDiv(RSub(totalValue, initialValue), initialValue)
  IN  IF q = NaN THEN NaN ELSE RMul(q, R(100))

\* the value the metrics give the portfolio for trade t: this.portfolio as it
\* is when the metric runs, the traded asset at the trade's price
RECURSIVE SumHoldingsAt(_, _, _)
SumHoldingsAt(assets, S, t) ==
  IF S = {} THEN Zero
  ELSE LET s == CHOOSE x \in S : TRUE
           price == IF assets[s].symbol = t.symbol THEN t.price ELSE assets[s].price
       IN  RAdd(RMul(assets[s].holdings, price), SumHoldingsAt(assets, S \ {s}, t))

TradeValue(p, t) == RAdd(p.cash, SumHoldingsAt(p.assets, DOMAIN p.assets, t))

\* const values = this.trades.map(...)
Values(p, ts) == [k \in 1..Len(ts) |-> TradeValue(p, ts[k])]

\* let peak = this.calculateInitialValue()
PeakSeed(p) == CalculateInitialValue(p)

\* the loop over values of calculateMaxDrawdown from index k on
RECURSIVE DrawdownScan(_, _, _, _)
DrawdownScan(values, k, peak, maxDrawdown) ==
  IF k > Len(values) THEN maxDrawdown
  ELSE LET value == values[k]
           peak2 == IF RLt(peak, value) THEN value ELSE peak
           q == JSDiv(RSub(peak2, value), peak2)
           drawdown == IF q = NaN THEN NaN ELSE RMul(q, R(100))
           max2 == IF drawdown # NaN /\ RLt(maxDrawdown, drawdown)
                   THEN drawdown ELSE maxDrawdown
       IN  DrawdownScan(values, k + 1, peak2, max2)

\* calculateMaxDrawdown()
CalculateMaxDrawdown(p, ts) == DrawdownScan(Values(p, ts), 1, PeakSeed(p), Zero)

\* the loop of calculateReturns from trade k on
RECURSIVE ReturnsScan(_, _, _, _)
ReturnsScan(p, ts, k, prevValue) ==
  IF k > Len(ts) THEN <<>>
  ELSE LET value == TradeValue(p, ts[k])
           rest == ReturnsScan(p, ts, k + 1, value)
       IN  IF prevValue # Zero
           THEN <<RDiv(RSub(value, prevValue), prevValue)>> \o rest
           ELSE rest

\* calculateReturns()
CalculateReturns(p, ts) == ReturnsScan(p, ts, 1, CalculateInitialValue(p))

\* stdDev is 0: the squared deviations from the mean sum to 0, which is so
\* exactly when every return equals the first
StdDevIsZero(rs) == \A k \in 1..Len(rs) : rs[k] = rs[1]

FewTradesNever(n) == FALSE

\* if (this.trades.length < 2) return 0
FewTrades(n) == n < 2

\* calculateSharpeRatio(): 0, NaN (no return to average), or
\* (avgReturn / stdDev) * sqrt(252), kept as the returns it is computed from
CalculateSharpeRatio(p, ts) ==
  IF FewTrades(Len(ts)) THEN Zero
  ELSE LET returns == CalculateReturns(p, ts)
       IN  IF returns = <<>> THEN NaN
           ELSE IF StdDevIsZero(returns) THEN Zero
           ELSE [returns |-> returns]

RiskCheckNoTradeSize(rl, quantity, price) ==
  RLe(quantity, rl.maxPositionSize)

RiskCheck(rl, quantity, price) ==
  LET tradeValue == RMul(quantity, price)
  IN  /\ RLe(tradeValue, rl.maxTradeSize)
      /\ RLe(quantity, rl.maxPositionSize)

\* this.portfolio, dereferenced
Portfolio == Deref(portfolios, assetObjs, thisPortfolio)

NoLoop == [i |-> 0]

NoCashCheck(cash, sliceAmount) == FALSE

\* if (this.portfolio.cash < sliceAmount) break
InsufficientCash(cash, sliceAmount) == RLt(cash, sliceAmount)

SellQuantityUnclamped(sliceQuantity, holdings) == sliceQuantity

\* Math.min(sliceQuantity, asset.holdings)
SellQuantity(sliceQuantity, holdings) == RMin(sliceQuantity, holdings)

HoldingsAfterSellNotional(holdings, quantity, price) ==
  RSub(holdings, RMul(quantity, price))

\* asset.holdings -= quantity
HoldingsAfterSell(holdings, quantity, price) == RSub(holdings, quantity)

CashAfterSellQuantityOnly(cash, quantity, price) == RAdd(cash, quantity)

\* this.portfolio.cash += quantity * update.price
CashAfterSell(cash, quantity, price) == RAdd(cash, RMul(quantity, price))

SetCash(ps, c) == [ps EXCEPT ![thisPortfolio].cash = c]
SetHoldings(ao, sym, h) ==
  [ao EXCEPT ![portfolios[thisPortfolio].assets][sym].holdings = h]

EngineInit ==
  \E p0 \in InitialPortfolios, rl \in RiskLimitChoices :
    LET setup == <<p0, rl>>
        ps0 == ("caller" :> [cash |-> p0.cash, assets |-> "callerAssets"])
        ao0 == ("callerAssets" :> p0.assets)
        c == JSONCopy(ps0, ao0, "caller")
    IN  /\ portfolios = c.portfolios
        /\ assetObjs = c.assetObjs
        /\ thisPortfolio = c.ref
        /\ callerAtConstruction = Deref(ps0, ao0, "caller")
        /\ setup \in EngineSetups
        /\ riskLimits = rl
        /\ trades = <<>>
        /\ pc = "idle"
        /\ loop = NoLoop
        /\ results = <<>>
        /\ startValue = Zero
        /\ nRuns = 0
        /\ nUpdates = 0
        /\ nOverrides = 0
        /\ clock = 0

\* new TradingBot(...): the state the constructor leaves
BotInit ==
  /\ botPc = "constructed"
  /\ botPortfolio = [cash |-> Zero, assets |-> EmptyMap]
  /\ botRiskLimits = [maxPositionSize |-> R(100), maxDailyLoss |-> Frac(5, 100),
                      maxTradeSize |-> R(50000)]
  /\ isRunning = FALSE
  /\ priceIntervals = {}
  /\ timers = {}
  /\ startPc = "idle"
  /\ startIdx = 0
  /\ startAwait = 0
  /\ stopPc = "idle"
  /\ handlers = <<>>
  /\ nTimerPolls = 0
  /\ failedFirst = {}
  /\ timerPolled = {}
  /\ orderFailed = {}

\* run(): strategy.initialize, up to the first iteration of the update loop
Run ==
  /\ pc = "idle"
  /\ nRuns < MaxRuns
  /\ Initialize(EngineConfig)
  /\ pc' = "processing"
  /\ nRuns' = nRuns + 1
  /\ startValue' = CalculateTotalValue(Portfolio)
  /\ UNCHANGED <<heapVars, thisPortfolio, riskLimits, trades, loop, results,
                 nUpdates, nOverrides, clock>>
  /\ UNCHANGED liveVars

\* the log length, cash and holdings on entry to executeBuy / executeSell
\* (history kept for the properties; the code does not read it)
Entry(sym) ==
  [nTrades |-> Len(trades), cash |-> Portfolio.cash,
   holdings |-> IF sym \in DOMAIN Portfolio.assets
                THEN Portfolio.assets[sym].holdings ELSE Zero]

HasAssetAlways(assets, sym) == TRUE

\* const asset = this.portfolio.assets[signal.symbol]; if (!asset) return
HasAsset(assets, sym) == sym \in DOMAIN assets

\* processUpdate after strategy.onUpdate returned signal: the entry of
\* executeBuy / executeSell up to the first slice
Dispatch(signal, update) ==
  LET assets == Portfolio.assets
      has == HasAsset(assets, signal.symbol)
  IN  IF signal = Null THEN UNCHANGED <<pc, loop>>
      ELSE IF signal.action = "BUY"
      THEN IF ~has THEN UNCHANGED <<pc, loop>>
           ELSE LET portfolioValue == CalculateTotalValue(Portfolio)
                    buyAmount == RMul(portfolioValue, signal.percentage)
                    sliceAmount == RDiv(buyAmount, R(SliceCount))
                IN  /\ pc' = "buy"
                    /\ loop' = [i |-> 0, signal |-> signal, update |-> update,
                                slice |-> sliceAmount, entry |-> Entry(signal.symbol)]
      ELSE IF ~has \/ RLe(assets[signal.symbol].holdings, Zero)
           THEN UNCHANGED <<pc, loop>>
           ELSE LET sellQuantity == RMul(assets[signal.symbol].holdings, signal.percentage)
                    sliceQuantity == RDiv(sellQuantity, R(SliceCount))
                IN  /\ pc' = "sell"
                    /\ loop' = [i |-> 0, signal |-> signal, update |-> update,
                                slice |-> sliceQuantity, entry |-> Entry(signal.symbol)]

Stamp(u) == [symbol |-> u.symbol, price |-> u.price, timestamp |-> clock]

\* one iteration of the update loop of run() with DropRiseStrategy
ProcessUpdate(u) ==
  /\ pc = "processing"
  /\ nUpdates < MaxUpdates
  /\ OnUpdate(Stamp(u))
  /\ Dispatch(lastSignal', Stamp(u))
  /\ nUpdates' = nUpdates + 1
  /\ clock' = clock + TwapIntervalMs
  /\ UNCHANGED <<heapVars, thisPortfolio, riskLimits, trades, results, startValue,
                 nRuns, nOverrides>>
  /\ UNCHANGED liveVars

\* one iteration of the update loop of run() with another IStrategy, which
\* delegates to DropRiseStrategy and returns a signal of its own
ProcessUpdateOverride(u, sig) ==
  /\ pc = "processing"
  /\ nUpdates < MaxUpdates
  /\ nOverrides < MaxOverrides
  /\ OnUpdate(Stamp(u))
  /\ Dispatch([symbol |-> u.symbol, action |-> sig.action,
               percentage |-> sig.percentage], Stamp(u))
  /\ nUpdates' = nUpdates + 1
  /\ nOverrides' = nOverrides + 1
  /\ clock' = clock + TwapIntervalMs
  /\ UNCHANGED <<heapVars, thisPortfolio, riskLimits, trades, results, startValue, nRuns>>
  /\ UNCHANGED liveVars

SliceTimestampNoOffset(update, i) == update.timestamp

\* timestamp: update.timestamp + i * 60000
SliceTimestamp(update, i) == update.timestamp + i * 60000

NextSlice ==
  IF loop.i + 1 < SliceCount
  THEN /\ loop' = [loop EXCEPT !.i = loop.i + 1]
       /\ pc' = pc
  ELSE /\ loop' = NoLoop
       /\ pc' = "processing"

\* one iteration of the slice loop of executeBuy
BuySlice ==
  /\ pc = "buy"
  /\ LET sym == loop.signal.symbol
         price == loop.update.price
         asset == Portfolio.assets[sym]
         quantity == RDiv(loop.slice, price)
     IN  IF InsufficientCash(Portfolio.cash, loop.slice)
         THEN /\ pc' = "processing"
              /\ loop' = NoLoop
              /\ UNCHANGED <<portfolios, assetObjs, trades>>
         ELSE /\ NextSlice
              /\ IF RiskCheck(riskLimits, quantity, price)
                 THEN /\ portfolios' = SetCash(portfolios, RSub(Portfolio.cash, loop.slice))
                      /\ assetObjs' = SetHoldings(assetObjs, sym, RAdd(asset.holdings, quantity))
                      /\ trades' = Append(trades,
                           [symbol |-> sym, side |-> "BUY", quantity |-> quantity,
                            price |-> price,
                            timestamp |-> SliceTimestamp(loop.update, loop.i)])
                 ELSE UNCHANGED <<portfolios, assetObjs, trades>>
  /\ UNCHANGED <<stratVars, callerAtConstruction, thisPortfolio, riskLimits, results,
                 startValue, nRuns, nUpdates, nOverrides, clock>>
  /\ UNCHANGED liveVars

\* one iteration of the slice loop of executeSell
SellSlice ==
  /\ pc = "sell"
  /\ LET sym == loop.signal.symbol
         price == loop.update.price
         asset == Portfolio.assets[sym]
         quantity == SellQuantity(loop.slice, asset.holdings)
     IN  /\ NextSlice
         /\ IF RLt(Zero, quantity) /\ RiskCheck(riskLimits, quantity, price)
            THEN /\ assetObjs' = SetHoldings(assetObjs, sym,
                                   HoldingsAfterSell(asset.holdings, quantity, price))
                 /\ portfolios' = SetCash(portfolios,
                                   CashAfterSell(Portfolio.cash, quantity, price))
                 /\ trades' = Append(trades,
                      [symbol |-> sym, side |-> "SELL", quantity |-> quantity,
                       price |-> price,
                       timestamp |-> SliceTimestamp(loop.update, loop.i)])
            ELSE UNCHANGED <<portfolios, assetObjs, trades>>
  /\ UNCHANGED <<stratVars, callerAtConstruction, thisPortfolio, riskLimits, results,
                 startValue, nRuns, nUpdates, nOverrides, clock>>
  /\ UNCHANGED liveVars

ResultRef(n) == "result" \o ToString(n)

\* run() after the update loop: strategy.onEnd and the BacktestResult
Finish ==
  /\ pc = "processing"
  /\ OnEnd
  /\ LET totalValue == CalculateTotalValue(Portfolio)
         initialValue == CalculateInitialValue(Portfolio)
         ref == ResultRef(nRuns)
     IN  /\ portfolios' = (ref :> portfolios[thisPortfolio]) @@ portfolios
         /\ results' = Append(results,
              [trades |-> "this.trades", finalPortfolio |-> ref,
               totalReturn |-> TotalReturn(totalValue, initialValue),
               sharpeRatio |-> CalculateSharpeRatio(Portfolio, trades),
               maxDrawdown |-> CalculateMaxDrawdown(Portfolio, trades)])
  /\ pc' = "idle"
  /\ UNCHANGED <<assetObjs, callerAtConstruction, thisPortfolio, riskLimits, trades,
                 loop, startValue, nRuns, nUpdates, nOverrides, clock>>
  /\ UNCHANGED liveVars

vars == <<stratVars, heapVars, engineVars, liveVars>>

Init == StratInit /\ EngineInit /\ BotInit

Next ==
  \/ Run
  \/ \E u \in RunUpdates : ProcessUpdate(u)
  \/ \E u \in RunUpdates, sig \in OverrideSignals : ProcessUpdateOverride(u, sig)
  \/ BuySlice
  \/ SellSlice
  \/ Finish

Spec == Init /\ [][Next]_vars

(***************************************************************************)
(* TradingBot (live mode).  Every await of the source is a point where     *)
(* other handlers, timers and stop() may run; the code between two awaits  *)
(* is one step.                                                            *)
(***************************************************************************)
\* the symbols index.ts passes to start(), cut to two
StartSymbols == <<"ETHUSDT", "SOLUSDT">>

\* portfolios client.getAccount() may return: cash for two BUY slices of a
\* signal, and ETH holdings whose SELL slices validateTrade rejects (their
\* value at the execution price is over cash * (1 + maxDailyLoss))
LivePortfolios ==
  { [cash |-> R(c),
     assets |-> ("ETHUSDT" :> [symbol |-> "ETHUSDT", price |-> R(50), holdings |-> R(20)])
            @@ ("SOLUSDT" :> [symbol |-> "SOLUSDT", price |-> R(100), holdings |-> Zero])]
    : c \in {50} }

NewHandler(sym, kind) ==
  [symbol |-> sym, kind |-> kind, pc |-> "getPrice", failed |-> FALSE,
   after |-> orderFailed, signal |-> Null, slice |-> Zero, price |-> Zero,
   quantity |-> Zero, i |-> 0]

\* the handler's promise has settled; its locals are dead
Done(h, failed) ==
  [h EXCEPT !.pc = "done", !.failed = failed, !.signal = Null,
            !.slice = Zero, !.price = Zero, !.quantity = Zero, !.i = 0]

HandlerIds == DOMAIN handlers

\* the id given to the next invocation of checkInterval
FreshId == CHOOSE n \in 1..(Cardinality(DOMAIN handlers) + 1) : n \notin DOMAIN handlers

\* handlers once invocation h has reached position hr: a settled invocation
\* is kept only while start() awaits it
Place(h, hr) ==
  IF hr.pc = "done" /\ h # startAwait
  THEN [g \in DOMAIN handlers \ {h} |-> handlers[g]]
  ELSE [handlers EXCEPT ![h] = hr]

ValidateTrade(rl, cash, quantity, price) ==
  LET tradeValue == RMul(quantity, price)
  IN  /\ RLe(tradeValue, rl.maxTradeSize)
      /\ RLe(quantity, rl.maxPositionSize)
      /\ RLe(tradeValue, RMul(cash, RAdd(R(1), rl.maxDailyLoss)))

\* calculatePortfolioValue()
CalculatePortfolioValue(p) == RAdd(p.cash, SumHoldings(p.assets, DOMAIN p.assets))

CheckIntervalOutcomeUncaught(failed) == IF failed THEN "rejected" ELSE "resolved"

\* how the promise of checkInterval() settles: its try/catch swallows every
\* exception of the cycle
CheckIntervalOutcome(failed) == "resolved"

\* the slice loop of executeSignal from iteration i up to its next await
\* (placeOrder) or its end
RECURSIVE SliceLoop(_, _, _, _)
SliceLoop(h, i, p, rl) ==
  IF i >= SliceCount THEN Done(h, FALSE)
  ELSE IF h.signal.action = "BUY"
  THEN IF RLt(p.cash, h.slice) THEN Done(h, FALSE)
       ELSE LET quantity == RDiv(h.slice, h.price)
            IN  IF ValidateTrade(rl, p.cash, quantity, h.price)
                THEN [h EXCEPT !.pc = "order", !.i = i, !.quantity = quantity]
                ELSE SliceLoop(h, i + 1, p, rl)
  ELSE LET quantity == RMin(h.slice, p.assets[h.symbol].holdings)
       IN  IF RLt(Zero, quantity) /\ ValidateTrade(rl, p.cash, quantity, h.price)
           THEN [h EXCEPT !.pc = "order", !.i = i, !.quantity = quantity]
           ELSE SliceLoop(h, i + 1, p, rl)

\* a try/catch inside the loop: the failed slice is skipped, the loop goes on
AfterExecFailureNextSlice(hr, p, rl) ==
  IF hr.pc = "order" THEN SliceLoop(hr, hr.i + 1, p, rl) ELSE Done(hr, TRUE)

\* the catch of executeSignal, around both loops: the exception of getPrice
\* or placeOrder ends executeSignal, and with it the cycle
AfterExecFailure(hr, p, rl) == Done(hr, TRUE)

\* TradingBot.initialize(): getAccount and strategy.initialize
BotInitialize(p) ==
  /\ botPc = "constructed"
  /\ botPortfolio' = p
  /\ Initialize(EngineConfig)
  /\ botPc' = "initialized"
  /\ UNCHANGED <<botRiskLimits, isRunning, priceIntervals, timers, startPc, startIdx,
                 startAwait, stopPc, handlers, nTimerPolls, failedFirst, timerPolled, orderFailed>>
  /\ UNCHANGED <<heapVars, engineVars>>

\* start(symbols) up to the getPrice of the first symbol's first poll
Start ==
  /\ botPc = "initialized"
  /\ startPc = "idle"
  /\ stopPc = "idle"
  /\ ~isRunning
  /\ isRunning' = TRUE
  /\ handlers' = (FreshId :> NewHandler(StartSymbols[1], "first")) @@ handlers
  /\ startPc' = "tracking"
  /\ startIdx' = 1
  /\ startAwait' = FreshId
  /\ UNCHANGED <<botPc, botPortfolio, botRiskLimits, priceIntervals, timers, stopPc,
                 nTimerPolls, failedFirst, timerPolled, orderFailed>>
  /\ UNCHANGED <<stratVars, heapVars, engineVars>>

\* trackSymbol after its first poll settled: setInterval, priceIntervals.set,
\* and start()'s next iteration up to the next first poll's getPrice
TrackSymbolResume ==
  /\ startPc = "tracking"
  /\ handlers[startAwait].pc = "done"
  /\ IF CheckIntervalOutcome(handlers[startAwait].failed) = "resolved"
     THEN /\ timers' = timers \cup {StartSymbols[startIdx]}
          /\ priceIntervals' = priceIntervals \cup {StartSymbols[startIdx]}
          /\ IF startIdx < Len(StartSymbols)
             THEN /\ handlers' = [handlers EXCEPT ![startAwait] =
                                     NewHandler(StartSymbols[startIdx + 1], "first")]
                  /\ startIdx' = startIdx + 1
                  /\ UNCHANGED <<startPc, startAwait>>
             ELSE /\ startPc' = "done"
                  /\ startAwait' = 0
                  /\ handlers' = [g \in DOMAIN handlers \ {startAwait} |-> handlers[g]]
                  /\ UNCHANGED startIdx
     ELSE /\ startPc' = "rejected"
          /\ startAwait' = 0
          /\ handlers' = [g \in DOMAIN handlers \ {startAwait} |-> handlers[g]]
          /\ UNCHANGED <<timers, priceIntervals, startIdx>>
  /\ UNCHANGED <<botPc, botPortfolio, botRiskLimits, isRunning, stopPc, nTimerPolls,
                 failedFirst, timerPolled, orderFailed>>
  /\ UNCHANGED <<stratVars, heapVars, engineVars>>

\* an active interval timer fires: checkInterval up to its getPrice
TimerFire(sym) ==
  /\ sym \in timers
  /\ nTimerPolls < MaxTimerPolls
  /\ Cardinality(DOMAIN handlers) < MaxPending
  /\ handlers' = (FreshId :> NewHandler(sym, "timer")) @@ handlers
  /\ nTimerPolls' = nTimerPolls + 1
  /\ timerPolled' = timerPolled \cup {sym}
  /\ UNCHANGED <<failedFirst, orderFailed>>
  /\ UNCHANGED <<botPc, botPortfolio, botRiskLimits, isRunning, priceIntervals, timers,
                 startPc, startIdx, startAwait, stopPc>>
  /\ UNCHANGED <<stratVars, heapVars, engineVars>>

handlerFrame == <<botPc, botPortfolio, botRiskLimits, isRunning, priceIntervals, timers,
                  startPc, startIdx, startAwait, stopPc, nTimerPolls, timerPolled>>

\* checkInterval after onUpdate returned signal: without a signal the cycle
\* ends, with one executeSignal runs up to its getPrice
AfterOnUpdate(hr, signal) ==
  LET has == signal # Null /\ signal.symbol \in DOMAIN botPortfolio.assets
      portfolioValue == CalculatePortfolioValue(botPortfolio)
  IN  IF signal = Null THEN Done(hr, FALSE)
      ELSE IF signal.action = "BUY" /\ has
      THEN [hr EXCEPT !.pc = "execPrice", !.signal = signal,
              !.slice = RDiv(RMul(portfolioValue, signal.percentage), R(SliceCount))]
      ELSE IF signal.action = "SELL" /\ has
              /\ RLt(Zero, botPortfolio.assets[signal.symbol].holdings)
      THEN [hr EXCEPT !.pc = "execPrice", !.signal = signal,
              !.slice = RDiv(RMul(botPortfolio.assets[signal.symbol].holdings,
                                  signal.percentage), R(SliceCount))]
      ELSE Done(hr, FALSE)

\* getPrice of a poll resolves: the update is built, strategy.onUpdate runs
\* and the cycle goes on to the getPrice of executeSignal or ends.  (The
\* await of onUpdate's settled promise yields to microtasks only; the steps
\* that may run there commute with the rest of this one.)
GetPriceResolve(h, price) ==
  /\ handlers[h].pc = "getPrice"
  /\ OnUpdate([symbol |-> handlers[h].symbol, price |-> price,
               timestamp |-> nCalls * TwapIntervalMs])
  /\ handlers' = Place(h, AfterOnUpdate(handlers[h], lastSignal'))
  /\ UNCHANGED <<handlerFrame, failedFirst, orderFailed>>
  /\ UNCHANGED <<heapVars, engineVars>>

\* getPrice of a poll rejects, or the strategy's onUpdate throws: caught by
\* the catch of checkInterval
PollFails(h) ==
  /\ handlers[h].pc = "getPrice"
  /\ handlers' = Place(h, Done(handlers[h], TRUE))
  /\ failedFirst' = IF handlers[h].kind = "first"
                    THEN failedFirst \cup {handlers[h].symbol} ELSE failedFirst
  /\ UNCHANGED <<handlerFrame, orderFailed>>
  /\ UNCHANGED <<stratVars, heapVars, engineVars>>

\* getPrice of executeSignal resolves: the slice loop runs to its first placeOrder
ExecPriceResolve(h, price) ==
  /\ handlers[h].pc = "execPrice"
  /\ handlers' = Place(h, SliceLoop([handlers[h] EXCEPT !.price = price], 0,
                                    botPortfolio, botRiskLimits))
  /\ UNCHANGED <<handlerFrame, failedFirst, orderFailed>>
  /\ UNCHANGED <<stratVars, heapVars, engineVars>>

\* getPrice or placeOrder of executeSignal rejects: caught by the catch of
\* executeSignal, the cycle ends
ExecFails(h) ==
  /\ handlers[h].pc \in {"execPrice", "order"}
  /\ handlers' = Place(h, AfterExecFailure(handlers[h], botPortfolio, botRiskLimits))
  /\ failedFirst' = IF handlers[h].kind = "first"
                    THEN failedFirst \cup {handlers[h].symbol} ELSE failedFirst
  /\ orderFailed' = IF handlers[h].pc = "order"
                    THEN orderFailed \cup {handlers[h].symbol} ELSE orderFailed
  /\ UNCHANGED handlerFrame
  /\ UNCHANGED <<stratVars, heapVars, engineVars>>

\* placeOrder resolves: the fill is booked and the 60 s delay begins
OrderResolve(h) ==
  /\ handlers[h].pc = "order"
  /\ LET hr == handlers[h]
         asset == botPortfolio.assets[hr.symbol]
     IN  botPortfolio' =
           IF hr.signal.action = "BUY"
           THEN [botPortfolio EXCEPT
                   !.cash = RSub(@, hr.slice),
                   !.assets[hr.symbol].holdings = RAdd(@, hr.quantity)]
           ELSE [botPortfolio EXCEPT
                   !.assets[hr.symbol].holdings = RSub(@, hr.quantity),
                   !.cash = RAdd(@, RMul(hr.quantity, hr.price))]
  /\ handlers' = [handlers EXCEPT ![h].pc = "sleep"]
  /\ UNCHANGED <<botPc, botRiskLimits, isRunning, priceIntervals, timers,
                 startPc, startIdx, startAwait, stopPc, nTimerPolls,
                 failedFirst, timerPolled, orderFailed>>
  /\ UNCHANGED <<stratVars, heapVars, engineVars>>

\* the 60 s delay after a slice ends: the loop goes on to its next placeOrder
SleepDone(h) ==
  /\ handlers[h].pc = "sleep"
  /\ handlers' = Place(h, SliceLoop(handlers[h], handlers[h].i + 1,
                                    botPortfolio, botRiskLimits))
  /\ UNCHANGED <<handlerFrame, failedFirst, orderFailed>>
  /\ UNCHANGED <<stratVars, heapVars, engineVars>>

\* stop() up to its await of strategy.onEnd()
StopCall ==
  /\ stopPc = "idle"
  /\ startPc # "idle"
  /\ isRunning' = FALSE
  /\ timers' = timers \ priceIntervals
  /\ priceIntervals' = {}
  /\ OnEnd
  /\ stopPc' = "awaiting"
  /\ UNCHANGED <<botPc, botPortfolio, botRiskLimits, startPc, startIdx, startAwait,
                 handlers, nTimerPolls, failedFirst, timerPolled, orderFailed>>
  /\ UNCHANGED <<heapVars, engineVars>>

\* stop() returns to its caller
StopReturn ==
  /\ stopPc = "awaiting"
  /\ stopPc' = "done"
  /\ UNCHANGED <<botPc, botPortfolio, botRiskLimits, isRunning, priceIntervals, timers,
                 startPc, startIdx, startAwait, handlers, nTimerPolls,
                 failedFirst, timerPolled, orderFailed>>
  /\ UNCHANGED <<stratVars, heapVars, engineVars>>

LiveInit ==
  /\ StratInit
  /\ BotInit
  /\ \E rl \in {r \in RiskLimitChoices : r.maxTradeSize = R(50000) /\ r.maxPositionSize = R(100)} :
       LET ps0 == ("caller" :> [cash |-> Zero, assets |-> "callerAssets"])
           ao0 == ("callerAssets" :> EmptyMap)
           c == JSONCopy(ps0, ao0, "caller")
       IN  /\ portfolios = c.portfolios
           /\ assetObjs = c.assetObjs
           /\ thisPortfolio = c.ref
           /\ callerAtConstruction = Deref(ps0, ao0, "caller")
           /\ riskLimits = rl
  /\ trades = <<>>
  /\ pc = "idle"
  /\ loop = NoLoop
  /\ results = <<>>
  /\ startValue = Zero
  /\ nRuns = 0
  /\ nUpdates = 0
  /\ nOverrides = 0
  /\ clock = 0

LiveNext ==
  \/ \E p \in LivePortfolios : BotInitialize(p)
  \/ Start
  \/ TrackSymbolResume
  \/ \E sym \in Symbols : TimerFire(sym)
  \/ \E h \in HandlerIds, price \in LivePrices : GetPriceResolve(h, R(price))
  \/ \E h \in HandlerIds : PollFails(h)
  \/ \E h \in HandlerIds, price \in ExecPrices : ExecPriceResolve(h, R(price))
  \/ \E h \in HandlerIds : ExecFails(h)
  \/ \E h \in HandlerIds : OrderResolve(h)
  \/ \E h \in HandlerIds : SleepDone(h)
  \/ StopCall
  \/ StopReturn

LiveSpec == LiveInit /\ [][LiveNext]_vars

(***************************************************************************)
(* DropRiseStrategy driven directly by a caller                            *)
(***************************************************************************)
Configs ==
  { EngineConfig,
    [dropThreshold |-> Frac(10, 100), riseThreshold |-> Frac(5, 100),
     buyPercentage |-> Frac(1, 2), sellPercentage |-> Frac(1, 4),
     twapSlices |-> 5, twapInterval |-> 60000],
    [dropThreshold |-> Zero] }

StratInitialize(cfg) ==
  /\ Initialize(cfg)
  /\ UNCHANGED <<heapVars, engineVars, liveVars>>

StratOnUpdate(u) ==
  /\ nCalls < MaxCalls
  /\ OnUpdate([symbol |-> u.symbol, price |-> u.price, timestamp |-> nCalls * TwapIntervalMs])
  /\ UNCHANGED <<heapVars, engineVars, liveVars>>

StratOnEnd ==
  /\ OnEnd
  /\ UNCHANGED <<heapVars, engineVars, liveVars>>

StratNext ==
  \/ \E cfg \in Configs : StratInitialize(cfg)
  \/ \E u \in Updates : StratOnUpdate(u)
  \/ StratOnEnd

StratSpec == Init /\ [][StratNext]_vars

(***************************************************************************)
(* Properties of the BacktestingEngine                                     *)
(***************************************************************************)
HoldingsNonNegative(p) == \A s \in DOMAIN p.assets : RLe(Zero, p.assets[s].holdings)

\* C1: in a backtest the engine's cash is never negative, and a BUY slice
\* whose notional exceeds the available cash ends the slice loop of its
\* signal without a trade
C1_BuyNeverDrivesCashNegative ==
  /\ [](RLe(Zero, Portfolio.cash))
  /\ [][(pc = "buy" /\ RLt(Portfolio.cash, loop.slice))
          => (pc' = "processing" /\ trades' = trades
              /\ portfolios' = portfolios /\ assetObjs' = assetObjs)]_vars

\* a BUY slice loop that has applied slices and now lacks the cash for the next
C1_Witness ==
  /\ pc = "buy"
  /\ loop.i > 0
  /\ Len(trades) >= loop.i
  /\ RLt(Portfolio.cash, loop.slice)

\* C2: in a backtest no asset's holdings are ever negative
C2_SellNeverDrivesHoldingsNegative == HoldingsNonNegative(Portfolio)

\* a SELL slice loop whose next slice is larger than what is left to sell
C2_Witness ==
  /\ pc = "sell"
  /\ loop.i > 0
  /\ trades # <<>>
  /\ trades[Len(trades)].side = "SELL"
  /\ RLt(Zero, Portfolio.assets[loop.signal.symbol].holdings)
  /\ RLt(Portfolio.assets[loop.signal.symbol].holdings, loop.slice)

\* C5: the portfolio object the caller passed to the constructor keeps the
\* value it had at construction
C5_CallerPortfolioUnchanged ==
  Deref(portfolios, assetObjs, "caller") = callerAtConstruction

\* two runs have ended and the engine's own portfolio has moved away from
\* the caller's in cash and in holdings
C5_Witness ==
  /\ nRuns = 2
  /\ pc = "idle"
  /\ Portfolio.cash # callerAtConstruction.cash
  /\ \E s \in DOMAIN Portfolio.assets :
       Portfolio.assets[s].holdings # callerAtConstruction.assets[s].holdings

\* the quantity of the slice the loop is about to attempt
PendingQuantity ==
  IF pc = "buy" THEN RDiv(loop.slice, loop.update.price)
  ELSE RMin(loop.slice, Portfolio.assets[loop.signal.symbol].holdings)

\* C6: every recorded trade is within maxTradeSize and maxPositionSize, and
\* a slice whose notional exceeds maxTradeSize records no trade and leaves
\* cash and holdings unchanged
C6_RiskPolicy ==
  /\ [](\A k \in 1..Len(trades) :
          /\ RLe(RMul(trades[k].quantity, trades[k].price), riskLimits.maxTradeSize)
          /\ RLe(trades[k].quantity, riskLimits.maxPositionSize))
  /\ [][(pc \in {"buy", "sell"}
         /\ RLt(riskLimits.maxTradeSize, RMul(PendingQuantity, loop.update.price)))
          => (trades' = trades /\ portfolios' = portfolios /\ assetObjs' = assetObjs)]_vars

\* trades have been recorded and the next slice is over maxTradeSize while
\* within maxPositionSize
C6_Witness ==
  /\ pc \in {"buy", "sell"}
  /\ trades # <<>>
  /\ RLt(riskLimits.maxTradeSize, RMul(PendingQuantity, loop.update.price))
  /\ RLe(PendingQuantity, riskLimits.maxPositionSize)
  /\ RLt(Zero, PendingQuantity)

\* C10: the totalReturn of the latest result is the change, in percent, from
\* the portfolio value at the start of that run to the value at its end
C10_TotalReturnFromRunStart ==
  (pc = "idle" /\ results # <<>>) =>
     results[Len(results)].totalReturn =
        TotalReturn(CalculateTotalValue(Portfolio), startValue)

\* the value series is monotonically non-decreasing
NonDecreasing(values) ==
  \A k \in 1..(Len(values) - 1) : RLe(values[k], values[k + 1])

\* C11: when run() has returned and the trade-indexed value series (empty and
\* one-element series included) is non-decreasing, the maxDrawdown of the
\* result is 0
C11_MaxDrawdownZeroWhenNonDecreasing ==
  (pc = "idle" /\ results # <<>> /\ NonDecreasing(Values(Portfolio, trades))) =>
     results[Len(results)].maxDrawdown = Zero

\* C12: when run() has returned, the sharpeRatio of the result is 0 if the
\* trade log holds 0 or 1 trades, and 0 if all per-trade returns are equal
\* (their standard deviation is 0)
C12_SharpeZero ==
  (pc = "idle" /\ results # <<>>) =>
     LET returns == CalculateReturns(Portfolio, trades)
         sharpeRatio == results[Len(results)].sharpeRatio
     IN  /\ Len(trades) <= 1 => sharpeRatio = Zero
         /\ (\A j, k \in 1..Len(returns) : returns[j] = returns[k]) => sharpeRatio = Zero

\* a run has returned with two or more trades whose returns are all equal
C12_Witness ==
  /\ pc = "idle"
  /\ results # <<>>
  /\ Len(trades) >= 2
  /\ LET returns == CalculateReturns(Portfolio, trades)
     IN  /\ Len(returns) >= 2
         /\ \A j, k \in 1..Len(returns) : returns[j] = returns[k]
  /\ results[Len(results)].sharpeRatio = Zero

\* C13: a SELL loop for a signal with 0 < percentage <= 1 on holdings h at
\* price P whose slices h*p/5 pass the risk check ends with exactly 5 more
\* trades, each a SELL of h*p/5 at P, holdings h - h*p and cash up by h*p*P
C13_SellSlicesExact ==
  [][(pc = "sell" /\ pc' = "processing")
       => LET sym == loop.signal.symbol
              p == loop.signal.percentage
              h == loop.entry.holdings
              P == loop.update.price
              q == RDiv(RMul(h, p), R(5))
              n0 == loop.entry.nTrades
          IN  (/\ RLt(Zero, p) /\ RLe(p, R(1)) /\ RLt(Zero, h)
               /\ RLe(RMul(q, P), riskLimits.maxTradeSize)
               /\ RLe(q, riskLimits.maxPositionSize))
              => /\ Len(trades') = n0 + 5
                 /\ \A k \in 1..5 :
                      /\ trades'[n0 + k].side = "SELL"
                      /\ trades'[n0 + k].symbol = sym
                      /\ trades'[n0 + k].quantity = q
                      /\ trades'[n0 + k].price = P
                 /\ Portfolio'.assets[sym].holdings = RSub(h, RMul(h, p))
                 /\ Portfolio'.cash = RAdd(loop.entry.cash, RMul(RMul(h, p), P))]_vars

\* the SELL signal of DropRiseStrategy has just been executed in 5 slices
C13_Witness ==
  /\ pc = "processing"
  /\ lastSignal # Null
  /\ lastSignal.action = "SELL"
  /\ RLe(lastSignal.percentage, R(1))
  /\ Len(trades) >= 5
  /\ \A k \in 0..4 :
       LET t == trades[Len(trades) - 4 + k]
       IN  /\ t.side = "SELL"
           /\ t.symbol = lastUpdate.symbol
           /\ t.price = lastUpdate.price
           /\ t.timestamp = lastUpdate.timestamp + k * 60000
           /\ RLt(Zero, t.quantity)

\* the trades list a result holds, given the engine's log: the result holds
\* a reference to this.trades, not a copy
ResultTrades(r, log) == IF r.trades = "this.trades" THEN log ELSE r.trades

\* C14: no step changes the trades list or the finalPortfolio (cash and every
\* asset) of a result run() has returned, and no step changes or removes a
\* recorded trade
C14_ResultNeverMutated ==
  [][/\ \A k \in 1..Len(results) :
          /\ ResultTrades(results[k], trades') = ResultTrades(results[k], trades)
          /\ Deref(portfolios', assetObjs', results[k].finalPortfolio)
               = Deref(portfolios, assetObjs, results[k].finalPortfolio)
     /\ Len(trades') >= Len(trades)
     /\ \A k \in 1..Len(trades) : trades'[k] = trades[k]]_vars

\* C15: an update whose signal names a symbol without an entry in the
\* portfolio records no trade, creates no entry, leaves cash and every
\* asset as they are, and the run goes on to the next update
C15_MissingAssetDropped ==
  [][(/\ pc = "processing"
      /\ nUpdates' = nUpdates + 1
      /\ lastUpdate'.symbol \notin DOMAIN Portfolio.assets
      /\ (lastSignal' # Null \/ nOverrides' = nOverrides + 1))
       => /\ trades' = trades
          /\ portfolios' = portfolios
          /\ assetObjs' = assetObjs
          /\ pc' = "processing"]_vars

\* the strategy has just returned a signal for a symbol the portfolio lacks
C15_Witness ==
  /\ pc = "processing"
  /\ nUpdates > 0
  /\ lastSignal # Null
  /\ lastSignal.symbol = lastUpdate.symbol
  /\ lastSignal.symbol \notin DOMAIN Portfolio.assets

\* C20: once the engine has processed an update for a symbol that has a
\* portfolio entry, the price of that asset is the price of the update
C20_AssetPriceIsLastObserved ==
  (pc # "idle" /\ nUpdates > 0 /\ lastUpdate.symbol \in DOMAIN Portfolio.assets) =>
     Portfolio.assets[lastUpdate.symbol].price = lastUpdate.price

\* C21: a step that records a trade appends one trade of slice index
\* i \in 0..4 of the update last handed to the strategy: it has that update's
\* symbol and price, the signal's side and the timestamp
\* update.timestamp + i * 60000, and it is at most the fifth trade of that
\* update; an update is taken from the data only when the slices of the one
\* before it are over, and it is the next one of the data
C21_AtMostFiveSlicesInInputOrder ==
  [][/\ trades' # trades =>
          /\ Len(trades') = Len(trades) + 1
          /\ loop.update = lastUpdate
          /\ loop.i \in 0..4
          /\ Len(trades') - loop.entry.nTrades <= 5
          /\ LET t == trades'[Len(trades')]
             IN  /\ t.symbol = lastUpdate.symbol
                 /\ t.price = lastUpdate.price
                 /\ t.side = loop.signal.action
                 /\ t.timestamp = lastUpdate.timestamp + loop.i * 60000
     /\ nUpdates' # nUpdates =>
          /\ pc = "processing"
          /\ loop = NoLoop
          /\ nUpdates' = nUpdates + 1
          /\ lastUpdate'.timestamp = clock
          /\ clock' = clock + TwapIntervalMs]_vars

\* one update has just been executed as five BUY slices, the update before it
\* having been executed as five slices too
C21_Witness ==
  /\ pc = "processing"
  /\ loop = NoLoop
  /\ Len(trades) >= 10
  /\ \A k \in 0..4 :
       LET t == trades[Len(trades) - 4 + k]
           b == trades[Len(trades) - 9 + k]
       IN  /\ t.side = "BUY"
           /\ t.symbol = lastUpdate.symbol
           /\ t.price = lastUpdate.price
           /\ t.timestamp = lastUpdate.timestamp + k * 60000
           /\ b.timestamp = lastUpdate.timestamp - TwapIntervalMs + k * 60000

\* the cash a recorded trade moved: out for a BUY, in for a SELL
CashFlow(t) ==
  IF t.side = "BUY" THEN RNeg(RMul(t.quantity, t.price)) ELSE RMul(t.quantity, t.price)

\* the quantity of sym a recorded trade moved: in for a BUY, out for a SELL
QuantityFlow(t, sym) ==
  IF t.symbol # sym THEN Zero
  ELSE IF t.side = "BUY" THEN t.quantity ELSE RNeg(t.quantity)

RECURSIVE NetCash(_, _)
NetCash(ts, k) == IF k = 0 THEN Zero ELSE RAdd(NetCash(ts, k - 1), CashFlow(ts[k]))

RECURSIVE NetQuantity(_, _, _)
NetQuantity(ts, k, sym) ==
  IF k = 0 THEN Zero ELSE RAdd(NetQuantity(ts, k - 1, sym), QuantityFlow(ts[k], sym))

Conserved ==
  /\ Portfolio.cash = RAdd(callerAtConstruction.cash, NetCash(trades, Len(trades)))
  /\ DOMAIN Portfolio.assets = DOMAIN callerAtConstruction.assets
  /\ \A sym \in DOMAIN Portfolio.assets :
       Portfolio.assets[sym].holdings =
         RAdd(callerAtConstruction.assets[sym].holdings,
              NetQuantity(trades, Len(trades), sym))

\* C22: in every state the engine's cash is the cash at construction minus
\* quantity * price of the recorded BUY trades plus quantity * price of the
\* recorded SELL trades, and the holdings of each asset are those at
\* construction plus the quantities of its BUY trades minus those of its
\* SELL trades; a step that changes the portfolio appends exactly one trade,
\* and every step keeps the trades recorded so far
C22_BookkeepingConserved ==
  /\ []Conserved
  /\ [][/\ Portfolio' # Portfolio => Len(trades') = Len(trades) + 1
        /\ Len(trades') >= Len(trades)
        /\ SubSeq(trades', 1, Len(trades)) = trades]_vars

\* BUY and SELL trades of a symbol are both on record, over two runs of the
\* engine, and cash and holdings have moved from their values at construction
C22_Witness ==
  /\ nRuns = 2
  /\ \E j, k \in 1..Len(trades) :
       /\ trades[j].side = "BUY"
       /\ trades[k].side = "SELL"
       /\ trades[j].symbol = trades[k].symbol
       /\ Portfolio.assets[trades[j].symbol].holdings
            # callerAtConstruction.assets[trades[j].symbol].holdings
  /\ Portfolio.cash # callerAtConstruction.cash

(***************************************************************************)
(* Properties of the TradingBot                                            *)
(***************************************************************************)
\* this step starts a poll: an invocation of checkInterval reaches its getPrice
PollStarted ==
  \E h \in DOMAIN handlers' :
     /\ handlers'[h].pc = "getPrice"
     /\ h \notin DOMAIN handlers \/ handlers[h].pc # "getPrice"

\* C3: once stop() has returned no interval timer is active and no poll is
\* started
C3_NoPollAfterStop ==
  /\ [](stopPc = "done" => timers = {})
  /\ [][stopPc = "done" => ~PollStarted]_vars

\* the symbols whose trackSymbol call has returned
Tracked ==
  { StartSymbols[k] : k \in { j \in 1..Len(StartSymbols) :
        startPc # "idle" /\ (startPc # "tracking" \/ j < startIdx) } }

\* C4: an exception in a poll cycle ends that cycle only: the step changes
\* neither isRunning, the timers, start() nor any other cycle and starts no
\* new poll; while stop() has not been called the bot stays running and
\* every symbol start() has gone past has its timer registered and active
C4_FailureIsolated ==
  /\ []((stopPc = "idle" /\ startPc # "idle") => isRunning)
  /\ [](stopPc = "idle" => (Tracked \subseteq timers /\ Tracked \subseteq priceIntervals))
  /\ []((stopPc = "idle" /\ failedFirst # {}) => startPc \in {"tracking", "done"})
  /\ [][\A h \in DOMAIN handlers :
          (PollFails(h) \/ ExecFails(h))
            => /\ isRunning' = isRunning
               /\ timers' = timers
               /\ priceIntervals' = priceIntervals
               /\ startPc' = startPc
               /\ ~PollStarted
               /\ \A g \in DOMAIN handlers \ {h} :
                    g \in DOMAIN handlers' /\ handlers'[g] = handlers[g]]_vars

\* the first poll of a symbol failed, start() went on to track every symbol,
\* the failed symbol's timer has polled since, and a symbol whose first poll
\* did not fail is tracked too
C4_Witness ==
  /\ isRunning
  /\ startPc = "done"
  /\ stopPc = "idle"
  /\ \E s \in failedFirst, t \in timers \ failedFirst :
        /\ s \in timerPolled
        /\ s \in timers

\* invocation h of checkInterval is suspended at an await
Suspended(h) == handlers[h].pc \in {"getPrice", "execPrice", "order", "sleep"}

\* in this step the placeOrder awaited by invocation h fails: h leaves its
\* await without the fill being booked
OrderFailedStep(h) ==
  /\ handlers[h].pc = "order"
  /\ (h \notin DOMAIN handlers' \/ handlers'[h] # handlers[h])
  /\ ~(h \in DOMAIN handlers' /\ handlers'[h].pc = "sleep")

\* C16: when placeOrder fails on a slice, cash and holdings stay as they are
\* (the fills of earlier slices included), the cycle ends without another
\* slice, and the timers, the running flag and every other cycle are left
\* alone, so later signals are executed
C16_OrderFailureAbortsSignalOnly ==
  [][\A h \in DOMAIN handlers :
       OrderFailedStep(h)
         => /\ botPortfolio' = botPortfolio
            /\ (h \notin DOMAIN handlers' \/ handlers'[h].pc = "done")
            /\ isRunning' = isRunning
            /\ timers' = timers
            /\ priceIntervals' = priceIntervals
            /\ \A g \in DOMAIN handlers \ {h} :
                 g \in DOMAIN handlers' /\ handlers'[g] = handlers[g]]_vars

\* a poll started after a placeOrder failure has received a signal and
\* filled a slice of it
C16_Witness ==
  \E h \in DOMAIN handlers :
    /\ handlers[h].after # {}
    /\ handlers[h].pc = "sleep"

\* C17: while an invocation is suspended and stop() has not been called,
\* every other symbol given to start() has its timer, or its immediate first
\* poll is in flight
C17_SlowHandlerDoesNotBlock ==
  \A h \in DOMAIN handlers :
    (Suspended(h) /\ stopPc = "idle" /\ startPc \in {"tracking", "done"})
      => \A k \in 1..Len(StartSymbols) :
           StartSymbols[k] # handlers[h].symbol
             => \/ StartSymbols[k] \in timers
                \/ \E g \in DOMAIN handlers :
                     /\ handlers[g].symbol = StartSymbols[k]
                     /\ handlers[g].kind = "first"

\* C18: the cash of the live portfolio is never negative
C18_LiveCashNonNegative == RLe(Zero, botPortfolio.cash)

\* C19: no invocation enters executeSignal for a symbol while the slice loop
\* of another invocation for that symbol is in flight
C19_NoOverlapPerSymbol ==
  [][\A g \in DOMAIN handlers' :
       (/\ handlers'[g].pc = "execPrice"
        /\ (g \notin DOMAIN handlers \/ handlers[g].pc # "execPrice"))
         => ~\E h \in DOMAIN handlers \ {g} :
               /\ handlers[h].symbol = handlers'[g].symbol
               /\ handlers[h].pc \in {"order", "sleep"}]_vars

(***************************************************************************)
(* Properties of DropRiseStrategy                                          *)
(***************************************************************************)
IsOnUpdateStep == nCalls' = nCalls + 1

\* C7: an onUpdate call for a symbol without a reference price returns no
\* signal and records the observed price as the symbol's reference price
C7_NoSignalOnFirstObservation ==
  [][(IsOnUpdateStep /\ lastUpdate'.symbol \notin DOMAIN initialPrices)
       => /\ lastSignal' = Null
          /\ DOMAIN initialPrices' = DOMAIN initialPrices \cup {lastUpdate'.symbol}
          /\ initialPrices'[lastUpdate'.symbol] = lastUpdate'.price
          /\ \A s \in DOMAIN initialPrices : initialPrices'[s] = initialPrices[s]]_vars

\* a first observation made after onEnd cleared earlier observations, under
\* a configuration whose drop threshold the observation meets
C7_Witness ==
  /\ nCalls >= 2
  /\ lastSignal = Null
  /\ config.dropThreshold = Zero
  /\ DOMAIN initialPrices = {lastUpdate.symbol}
  /\ priceHistory[lastUpdate.symbol] = <<lastUpdate.price>>

\* price - reference <= -dropThreshold * reference
MeetsDrop(price, ref, cfg) == RLe(RSub(price, ref), RNeg(RMul(cfg.dropThreshold, ref)))
\* price - reference >= riseThreshold * reference
MeetsRise(price, ref, cfg) == RLe(RMul(cfg.riseThreshold, ref), RSub(price, ref))

\* C8: an onUpdate call for a symbol with a reference price returns BUY with
\* buyPercentage iff the change is at or below -dropThreshold, SELL with
\* sellPercentage iff it is at or above riseThreshold and not a BUY, and no
\* signal iff it is strictly between the thresholds
C8_ThresholdDecision ==
  [][(IsOnUpdateStep /\ lastUpdate'.symbol \in DOMAIN initialPrices)
       => LET u == lastUpdate'
              ref == initialPrices[u.symbol]
              drop == MeetsDrop(u.price, ref, config)
              rise == MeetsRise(u.price, ref, config)
          IN  /\ drop <=> lastSignal' = [symbol |-> u.symbol, action |-> "BUY",
                                         percentage |-> config.buyPercentage]
              /\ (rise /\ ~drop) <=> lastSignal' = [symbol |-> u.symbol, action |-> "SELL",
                                                    percentage |-> config.sellPercentage]
              /\ (~drop /\ ~rise) <=> lastSignal' = Null]_vars

\* a BUY returned for a price exactly dropThreshold below the reference
C8_Witness ==
  /\ lastSignal.action = "BUY"
  /\ lastUpdate.symbol \in DOMAIN initialPrices
  /\ RLt(Zero, config.dropThreshold)
  /\ RSub(lastUpdate.price, initialPrices[lastUpdate.symbol])
       = RNeg(RMul(config.dropThreshold, initialPrices[lastUpdate.symbol]))

\* C9: onUpdate never changes a recorded reference price, and an update for
\* the symbol of the previous signal that meets the same threshold against
\* that reference returns the same action again
C9_NoHysteresis ==
  [][IsOnUpdateStep
       => /\ \A s \in DOMAIN initialPrices :
               s \in DOMAIN initialPrices' /\ initialPrices'[s] = initialPrices[s]
          /\ (/\ lastSignal # Null
              /\ lastUpdate'.symbol = lastSignal.symbol
              /\ lastUpdate'.symbol \in DOMAIN initialPrices
              /\ IF lastSignal.action = "BUY"
                 THEN MeetsDrop(lastUpdate'.price, initialPrices[lastUpdate'.symbol], config)
                 ELSE /\ MeetsRise(lastUpdate'.price, initialPrices[lastUpdate'.symbol], config)
                      /\ ~MeetsDrop(lastUpdate'.price, initialPrices[lastUpdate'.symbol], config))
             => lastSignal'.action = lastSignal.action]_vars

\* the same signal returned for three updates in a row, the last two at
\* different prices, against an unchanged reference
C9_Witness ==
  /\ lastSignal # Null
  /\ lastUpdate.symbol \in DOMAIN priceHistory
  /\ LET h == priceHistory[lastUpdate.symbol]
         ref == initialPrices[lastUpdate.symbol]
     IN  /\ Len(h) = 4
         /\ h[1] = ref
         /\ h[3] # h[4]
         /\ \A k \in 2..4 :
              IF lastSignal.action = "BUY" THEN MeetsDrop(h[k], ref, config)
              ELSE MeetsRise(h[k], ref, config) /\ ~MeetsDrop(h[k], ref, config)

====
